---- MODULE Spec2Model ----
(***************************************************************************)
(* Integer value-range domain of staticcheck/vrp (int.go): the extended    *)
(* integers Z, the Interval lattice built on them and the constraint       *)
(* evaluators (arithmetic, integer conversion, intersection, future        *)
(* intersection, leaf interval) driven by an external scheduler that owns  *)
(* the value -> range mapping.                                             *)
(*                                                                         *)
(* A Go panic is modelled as a distinguished result (PanicZ / PanicI) that *)
(* propagates through every caller; in the scheduler specification a       *)
(* panic aborts the run (no action is enabled afterwards).                 *)
(***************************************************************************)
EXTENDS Integers, Sequences, FiniteSets, TLC

\* ---------------------------------------------------------------- bounds
MaxInt == 2      \* finite operands of the pure Z / Interval calls: -MaxInt..MaxInt
MaxRange == 0    \* finite bounds the scheduler may store in the mapping: -1..MaxRange

\* ------------------------------------------------------------------- Z
\* type Z struct { infinity int8; integer *big.Int }: the pointer is modelled
\* as a sequence of length 0 (nil) or 1 (the number pointed to).
NewZ(n) == [infinity |-> 0, integer |-> <<n>>]

NInfinity == [infinity |-> -1, integer |-> <<>>]

PInfinity == [infinity |-> 1, integer |-> <<>>]

\* The zero value Z{}: infinity 0 and a nil integer (the bounds of Interval{}).
ZeroZ == [infinity |-> 0, integer |-> <<>>]

\* Result of a call that panicked (fmt panic or nil *big.Int dereference).
PanicZ == [infinity |-> 2, integer |-> <<>>]

IsPanicZ(z) == z.infinity = 2

Infinite(z1) == z1.infinity # 0

\* z.integer is dereferenced although it is nil
NilInt(z) == z.infinity = 0 /\ z.integer = <<>>

\* big.Int.Sign of a finite value
IntSign(n) == IF n < 0 THEN -1 ELSE IF n = 0 THEN 0 ELSE 1

\* Z.Sign; panics (nil dereference) exactly when NilInt(z1)
Sign(z1) == IF z1.infinity # 0 THEN z1.infinity ELSE IntSign(z1.integer[1])

Negate(z1) ==
    IF z1.infinity = 1 THEN NInfinity
    ELSE IF z1.infinity = -1 THEN PInfinity
    ELSE IF NilInt(z1) THEN PanicZ
    ELSE NewZ(0 - z1.integer[1])

RECURSIVE ZAdd(_, _)
RECURSIVE ZSub(_, _)

ZAdd(z1, z2) ==
    IF IsPanicZ(z1) \/ IsPanicZ(z2) THEN PanicZ
    ELSE IF NilInt(z2) THEN PanicZ
    ELSE IF Sign(z2) = -1 THEN ZSub(z1, Negate(z2))
    ELSE IF z1 = NInfinity THEN NInfinity
    ELSE IF z1 = PInfinity THEN PInfinity
    ELSE IF z2 = PInfinity THEN PInfinity
    ELSE IF ~Infinite(z1) /\ ~Infinite(z2)
         THEN IF NilInt(z1) THEN PanicZ
              ELSE NewZ(z1.integer[1] + z2.integer[1])
    ELSE PanicZ

ZSub(z1, z2) ==
    IF IsPanicZ(z1) \/ IsPanicZ(z2) THEN PanicZ
    ELSE IF NilInt(z2) THEN PanicZ
    ELSE IF Sign(z2) = -1 THEN ZAdd(z1, Negate(z2))
    ELSE IF ~Infinite(z1) /\ ~Infinite(z2)
         THEN IF NilInt(z1) THEN PanicZ
              ELSE NewZ(z1.integer[1] - z2.integer[1])
    ELSE IF z1 # PInfinity /\ z2 = PInfinity THEN NInfinity
    ELSE IF Infinite(z1) /\ ~Infinite(z2) THEN [infinity |-> z1.infinity, integer |-> <<>>]
    ELSE PanicZ

ZMul(z1, z2) ==
    IF IsPanicZ(z1) \/ IsPanicZ(z2) THEN PanicZ
    ELSE IF (z1.integer # <<>> /\ z1.integer[1] = 0)
            \/ (z2.integer # <<>> /\ z2.integer[1] = 0)
         THEN NewZ(0)
    ELSE IF z1.infinity # 0 \/ z2.infinity # 0
         THEN IF NilInt(z1) \/ NilInt(z2) THEN PanicZ
              ELSE [infinity |-> Sign(z1) * Sign(z2), integer |-> <<>>]
    ELSE IF NilInt(z1) \/ NilInt(z2) THEN PanicZ
    ELSE NewZ(z1.integer[1] * z2.integer[1])

\* big.Int.Cmp of two finite values
IntCmp(m, n) == IF m < n THEN -1 ELSE IF m = n THEN 0 ELSE 1

\* Z.Cmp on operands whose integer is set or which are infinite (every
\* caller below passes such operands; a panicked operand is caught by the
\* callers before the comparison).
Cmp(z1, z2) ==
    IF z1.infinity = z2.infinity /\ z1.infinity # 0 THEN 0
    ELSE IF z1 = PInfinity THEN 1
    ELSE IF z1 = NInfinity THEN -1
    ELSE IF z2 = NInfinity THEN 1
    ELSE IF z2 = PInfinity THEN -1
    ELSE IntCmp(z1.integer[1], z2.integer[1])

\* the loop of Max over zs[1:], ret being the running maximum
RECURSIVE MaxLoop(_, _)
MaxLoop(ret, zs) ==
    IF zs = <<>> THEN ret
    ELSE MaxLoop(IF Cmp(Head(zs), ret) = 1 THEN Head(zs) ELSE ret, Tail(zs))

\* Max(zs ...Z); zs is never empty in this package
Max(zs) ==
    IF \E k \in 1..Len(zs) : IsPanicZ(zs[k]) THEN PanicZ
    ELSE IF Len(zs) = 1 THEN zs[1]
    ELSE MaxLoop(zs[1], Tail(zs))

RECURSIVE MinLoop(_, _)
MinLoop(ret, zs) ==
    IF zs = <<>> THEN ret
    ELSE MinLoop(IF Cmp(Head(zs), ret) = -1 THEN Head(zs) ELSE ret, Tail(zs))

Min(zs) ==
    IF \E k \in 1..Len(zs) : IsPanicZ(zs[k]) THEN PanicZ
    ELSE IF Len(zs) = 1 THEN zs[1]
    ELSE MinLoop(zs[1], Tail(zs))

\* ------------------------------------------------------------ Interval
\* Interval{}: the unknown interval (known = false, zero-valued bounds)
UnknownI == [known |-> FALSE, lower |-> ZeroZ, upper |-> ZeroZ]

EmptyI == [known |-> TRUE, lower |-> PInfinity, upper |-> NInfinity]

\* Result of an Interval-returning call that panicked.
PanicI == [known |-> FALSE, lower |-> PanicZ, upper |-> PanicZ]

NewInterval(l, u) ==
    IF IsPanicZ(l) \/ IsPanicZ(u) THEN PanicI
    ELSE IF Cmp(u, l) = -1 THEN EmptyI
    ELSE [known |-> TRUE, lower |-> l, upper |-> u]

IsKnown(i) == i.known

Empty(i) == i.lower = PInfinity /\ i.upper = NInfinity

IsMaxRange(i) == i.lower = NInfinity /\ i.upper = PInfinity

\* variant: an unknown receiver absorbs instead of yielding the other operand
IntervalIntersectionUnknownAbsorbs(i1, i2) ==
    IF ~IsKnown(i1) THEN i1
    ELSE IF ~IsKnown(i2) THEN i1
    ELSE IF Empty(i1) \/ Empty(i2) THEN EmptyI
    ELSE LET i3 == NewInterval(Max(<<i1.lower, i2.lower>>), Min(<<i1.upper, i2.upper>>))
         IN IF Cmp(i3.lower, i3.upper) = 1 THEN EmptyI ELSE i3

IntervalIntersection(i1, i2) ==
    IF ~IsKnown(i1) THEN i2
    ELSE IF ~IsKnown(i2) THEN i1
    ELSE IF Empty(i1) \/ Empty(i2) THEN EmptyI
    ELSE LET i3 == NewInterval(Max(<<i1.lower, i2.lower>>), Min(<<i1.upper, i2.upper>>))
         IN IF Cmp(i3.lower, i3.upper) = 1 THEN EmptyI ELSE i3

\* A Range of another domain (not an Interval), as Union may receive.
OtherRange == [domain |-> "other"]

IsInterval(r) == "known" \in DOMAIN r

IntervalUnion(i1, other) ==
    LET i2 == IF IsInterval(other) THEN other ELSE EmptyI
    IN IF Empty(i1) \/ ~IsKnown(i1) THEN i2
       ELSE IF Empty(i2) \/ ~IsKnown(i2) THEN i1
       ELSE NewInterval(Min(<<i1.lower, i2.lower>>), Max(<<i1.upper, i2.upper>>))

IntervalAdd(i1, i2) ==
    IF Empty(i1) \/ Empty(i2) THEN EmptyI
    ELSE NewInterval(ZAdd(i1.lower, i2.lower), ZAdd(i1.upper, i2.upper))

IntervalSub(i1, i2) ==
    IF Empty(i1) \/ Empty(i2) THEN EmptyI
    ELSE NewInterval(ZSub(i1.lower, i2.upper), ZSub(i1.upper, i2.lower))

\* variant: only the products of the matching ends are taken
IntervalMulEnds(i1, i2) ==
    IF Empty(i1) \/ Empty(i2) THEN EmptyI
    ELSE LET cs == <<ZMul(i1.lower, i2.lower), ZMul(i1.upper, i2.upper)>>
         IN NewInterval(Min(cs), Max(cs))

IntervalMul(i1, i2) ==
    IF Empty(i1) \/ Empty(i2) THEN EmptyI
    ELSE LET x1 == i1.lower
             x2 == i1.upper
             y1 == i2.lower
             y2 == i2.upper
             cs == <<ZMul(x1, y1), ZMul(x1, y2), ZMul(x2, y1), ZMul(x2, y2)>>
         IN NewInterval(Min(cs), Max(cs))

\* --------------------------------------------------------- constraints
\* Program values (ssa.Value) of the modelled graph: x is the operand /
\* source value of every constraint, v the second operand, the conversion
\* target and the dependency of the future intersection.
Values == {"x", "v"}

\* types.Basic of a value: signedness (Info()&IsUnsigned) and
\* StdSizes{WordSize: 8}.Sizeof in bytes.  Sources are the 1- and 2-byte
\* types, whose maximum 2^(8N)-1 is a representable integer here; the
\* destinations are all four integer widths.
SrcSizes == {1, 2}

DstSizes == {1, 2, 4, 8}

BasicTypes(sizes) == [unsigned : BOOLEAN, size : sizes]

InfinityFor(t) ==
    IF t.unsigned THEN NewInterval(NewZ(0), PInfinity)
    ELSE NewInterval(NInfinity, PInfinity)

\* Graph.Range: the scheduler's read accessor; a value without a recorded
\* range reads as unknown.
GraphRange(g, v) == IF v \in DOMAIN g THEN g[v] ELSE UnknownI

\* the Fn field of an ArithmeticConstraint (Interval.Add / Sub / Mul)
ApplyFn(fn, i1, i2) ==
    CASE fn = "Add" -> IntervalAdd(i1, i2)
      [] fn = "Sub" -> IntervalSub(i1, i2)
      [] fn = "Mul" -> IntervalMul(i1, i2)

\* variant: the combining function is applied without the unknown check
ArithmeticConstraintEvalUnguarded(g, c) ==
    ApplyFn(c.Fn, GraphRange(g, c.A), GraphRange(g, c.B))

ArithmeticConstraintEval(g, c) ==
    LET i1 == GraphRange(g, c.A)
        i2 == GraphRange(g, c.B)
    IN IF ~IsKnown(i1) \/ ~IsKnown(i2) THEN UnknownI
       ELSE ApplyFn(c.Fn, i1, i2)

\* n := 1; n.Lsh(n, fromB*8); n.Sub(n, 1)
MaxUnsigned(fromB) == 2^(fromB * 8) - 1

\* variant: an unknown destination is read as the full range of its type
IntConversionConstraintEvalDefaulting(g, c, ty) ==
    LET fromI == GraphRange(g, c.X)
        toR == GraphRange(g, c.Y)
        toI == IF IsKnown(toR) THEN toR ELSE InfinityFor(ty[c.Y])
        fromT == ty[c.X]
        toT == ty[c.Y]
        fromB == ty[c.X].size
        toB == ty[c.Y].size
    IN IF ~IsKnown(fromI) THEN toR
       ELSE IF fromT.unsigned /\ toB > fromB
            THEN NewInterval(Max(<<NewZ(0), fromI.lower>>),
                             Min(<<NewZ(MaxUnsigned(fromB)), toI.upper>>))
       ELSE IF ~fromT.unsigned /\ ~toT.unsigned /\ toB > fromB
            THEN NewInterval(Max(<<NInfinity, fromI.lower>>),
                             Min(<<NewZ(MaxUnsigned(fromB)), toI.upper>>))
       ELSE fromI

IntConversionConstraintEval(g, c, ty) ==
    LET fromI == GraphRange(g, c.X)
        toI == GraphRange(g, c.Y)
        fromT == ty[c.X]
        toT == ty[c.Y]
        fromB == ty[c.X].size
        toB == ty[c.Y].size
    IN IF ~IsKnown(fromI) THEN toI
       ELSE IF ~IsKnown(toI) THEN fromI
       ELSE IF fromT.unsigned /\ toB > fromB
            THEN NewInterval(Max(<<NewZ(0), fromI.lower>>),
                             Min(<<NewZ(MaxUnsigned(fromB)), toI.upper>>))
       ELSE IF ~fromT.unsigned /\ ~toT.unsigned /\ toB > fromB
            THEN NewInterval(Max(<<NInfinity, fromI.lower>>),
                             Min(<<NewZ(MaxUnsigned(fromB)), toI.upper>>))
       ELSE fromI

FutureIntersectionConstraintEval(g, c) ==
    LET xi == GraphRange(g, c.X)
    IN IntervalIntersection(xi, c.I)

\* variant: the lower bound is taken from the upper component of lower's range
ResolveIntervalFromUpper(g, c, ty) ==
    LET li == IF c.lower[1] \in DOMAIN g THEN g[c.lower[1]] ELSE InfinityFor(ty[c.lower[1]])
        ui == IF c.upper[1] \in DOMAIN g THEN g[c.upper[1]] ELSE InfinityFor(ty[c.upper[1]])
        l == IF c.lower # <<>> THEN ZAdd(li.upper, c.lowerOffset) ELSE NInfinity
        u == IF c.upper # <<>> THEN ZAdd(ui.upper, c.upperOffset) ELSE PInfinity
    IN NewInterval(l, u)

\* The interval Resolve stores in c.I, or PanicI when Resolve panics.
\* c.ranges is the scheduler's mapping g; lower / upper are nil (<<>>) or
\* hold one value.
ResolveInterval(g, c, ty) ==
    LET li == IF c.lower[1] \in DOMAIN g THEN g[c.lower[1]] ELSE InfinityFor(ty[c.lower[1]])
        ui == IF c.upper[1] \in DOMAIN g THEN g[c.upper[1]] ELSE InfinityFor(ty[c.upper[1]])
        l == IF c.lower # <<>> THEN ZAdd(li.lower, c.lowerOffset) ELSE NInfinity
        u == IF c.upper # <<>> THEN ZAdd(ui.upper, c.upperOffset) ELSE PInfinity
    IN NewInterval(l, u)

IntersectionConstraintEval(g, c) ==
    LET xi == GraphRange(g, c.X)
    IN IF ~IsKnown(xi) THEN c.I
       ELSE IntervalIntersection(xi, c.I)

IntervalConstraintEval(g, c) == c.I

\* ------------------------------------------------------- input domains
ZPool(k) == {NewZ(n) : n \in (0 - k)..k} \cup {NInfinity, PInfinity}

\* every interval NewInterval yields for bounds in zs, plus the unknown one
IntervalsOver(zs) == {NewInterval(l, u) : l \in zs, u \in zs} \cup {UnknownI}

Zs == ZPool(MaxInt)

Intervals == IntervalsOver(Zs)

\* ranges the scheduler may record for a value
RangePool == IntervalsOver({NewZ(n) : n \in (0 - 1)..MaxRange} \cup {NInfinity, PInfinity})

\* ranges of the conversion checks: around the 1- and 2-byte unsigned maxima
ConvPool == IntervalsOver({NewZ(n) : n \in {0 - 1, 0, 255, 300, 70000}} \cup {NInfinity, PInfinity})

\* literal intervals of the intersection and leaf constraints of the graph
Literals == {NewInterval(NewZ(0), PInfinity), NewInterval(NInfinity, NewZ(0))}

\* (lowerOffset, upperOffset) of the future intersection: x > v, x < v and
\* their non-strict / mirrored forms
Offsets == {<<NewZ(1), NewZ(0 - 1)>>, <<NewZ(0), NewZ(0)>>}

\* --------------------------------------------------------------- state
VARIABLES
    op,         \* the last call made
    args,       \* its arguments (operands, or the fields of the constraint evaluated)
    ret,        \* its result
    ranges,     \* the scheduler's mapping value -> Range (a Go map: partial)
    typ,        \* the type of each value
    fut,        \* the FutureIntersectionConstraint of the graph
    resolveRan  \* history: Resolve has been called and returned

vars == <<op, args, ret, ranges, typ, fut, resolveRan>>

\* the graph's fixed constraints
ArithC(fn) == [A |-> "x", B |-> "v", Fn |-> fn]

ConvC == [X |-> "x", Y |-> "v"]

InterC(lit) == [X |-> "x", I |-> lit]

LeafC(lit) == [I |-> lit]

NoGraph ==
    /\ ranges = [w \in {} |-> UnknownI]
    /\ typ = [w \in Values |-> [unsigned |-> FALSE, size |-> 8]]
    /\ fut = [X |-> "x", lower |-> <<>>, lowerOffset |-> NewZ(0), upper |-> <<>>,
              upperOffset |-> NewZ(0), I |-> UnknownI, resolved |-> FALSE]
    /\ resolveRan = FALSE

\* ---- pure calls on Z: Init draws the operands, one action per method
InitZ ==
    /\ op = "init"
    /\ args \in Zs \X Zs
    /\ ret = ZeroZ
    /\ NoGraph

CallZAdd ==
    /\ op = "init"
    /\ op' = "Z.Add"
    /\ ret' = ZAdd(args[1], args[2])
    /\ UNCHANGED <<args, ranges, typ, fut, resolveRan>>

CallZSub ==
    /\ op = "init"
    /\ op' = "Z.Sub"
    /\ ret' = ZSub(args[1], args[2])
    /\ UNCHANGED <<args, ranges, typ, fut, resolveRan>>

CallZMul ==
    /\ op = "init"
    /\ op' = "Z.Mul"
    /\ ret' = ZMul(args[1], args[2])
    /\ UNCHANGED <<args, ranges, typ, fut, resolveRan>>

NextZ == CallZAdd \/ CallZSub \/ CallZMul

SpecZ == InitZ /\ [][NextZ]_vars

\* ---- pure calls on Interval
InitI ==
    /\ op = "init"
    /\ args \in Intervals \X (Intervals \cup {OtherRange})
    /\ ret = UnknownI
    /\ NoGraph

CallIntersection ==
    /\ op = "init"
    /\ IsInterval(args[2])
    /\ op' = "Interval.Intersection"
    /\ ret' = IntervalIntersection(args[1], args[2])
    /\ UNCHANGED <<args, ranges, typ, fut, resolveRan>>

CallUnion ==
    /\ op = "init"
    /\ op' = "Interval.Union"
    /\ ret' = IntervalUnion(args[1], args[2])
    /\ UNCHANGED <<args, ranges, typ, fut, resolveRan>>

CallAdd ==
    /\ op = "init"
    /\ IsInterval(args[2])
    /\ op' = "Interval.Add"
    /\ ret' = IntervalAdd(args[1], args[2])
    /\ UNCHANGED <<args, ranges, typ, fut, resolveRan>>

CallSub ==
    /\ op = "init"
    /\ IsInterval(args[2])
    /\ op' = "Interval.Sub"
    /\ ret' = IntervalSub(args[1], args[2])
    /\ UNCHANGED <<args, ranges, typ, fut, resolveRan>>

CallMul ==
    /\ op = "init"
    /\ IsInterval(args[2])
    /\ op' = "Interval.Mul"
    /\ ret' = IntervalMul(args[1], args[2])
    /\ UNCHANGED <<args, ranges, typ, fut, resolveRan>>

NextI == CallIntersection \/ CallUnion \/ CallAdd \/ CallSub \/ CallMul

SpecI == InitI /\ [][NextI]_vars

\* ---- the scheduler driving the constraints of one graph
EvalOps == {"ArithmeticConstraint.Eval", "IntConversionConstraint.Eval",
            "IntersectionConstraint.Eval", "FutureIntersectionConstraint.Eval",
            "IntervalConstraint.Eval"}

\* a panic aborts the analysis pass
Aborted == op # "init" /\ ret = PanicI

Init ==
    /\ op = "init"
    /\ args = <<>>
    /\ ret = UnknownI
    /\ ranges = [w \in {} |-> UnknownI]
    /\ \E u \in BOOLEAN :
          typ = [w \in Values |-> IF w = "x" THEN [unsigned |-> TRUE, size |-> 1]
                                  ELSE [unsigned |-> u, size |-> 2]]
    /\ \E lo \in {<<>>, <<"v">>}, up \in {<<>>, <<"v">>}, off \in Offsets :
          fut = [X |-> "x", lower |-> lo, lowerOffset |-> off[1], upper |-> up,
                 upperOffset |-> off[2], I |-> UnknownI, resolved |-> FALSE]
    /\ resolveRan = FALSE

\* the scheduler records the range r for the value w
SetRange(w, r) ==
    /\ ~Aborted
    /\ op' = "SetRange"
    /\ args' = <<>>
    /\ ret' = UnknownI
    /\ ranges' = [k \in DOMAIN ranges \cup {w} |-> IF k = w THEN r ELSE ranges[k]]
    /\ UNCHANGED <<typ, fut, resolveRan>>

EvalArithmetic(fn) ==
    /\ ~Aborted
    /\ op' = "ArithmeticConstraint.Eval"
    /\ args' = <<fn>>
    /\ ret' = ArithmeticConstraintEval(ranges, ArithC(fn))
    /\ UNCHANGED <<ranges, typ, fut, resolveRan>>

EvalIntConversion ==
    /\ ~Aborted
    /\ op' = "IntConversionConstraint.Eval"
    /\ args' = <<>>
    /\ ret' = IntConversionConstraintEval(ranges, ConvC, typ)
    /\ UNCHANGED <<ranges, typ, fut, resolveRan>>

EvalIntersection(lit) ==
    /\ ~Aborted
    /\ op' = "IntersectionConstraint.Eval"
    /\ args' = <<lit>>
    /\ ret' = IntersectionConstraintEval(ranges, InterC(lit))
    /\ UNCHANGED <<ranges, typ, fut, resolveRan>>

\* variant: the evaluation resolves the bound on first use
EvalFutureIntersectionResolving ==
    /\ ~Aborted
    /\ op' = "FutureIntersectionConstraint.Eval"
    /\ args' = <<>>
    /\ ret' = FutureIntersectionConstraintEval(ranges, fut)
    /\ LET i == ResolveInterval(ranges, fut, typ)
       IN fut' = IF ~fut.resolved /\ i # PanicI THEN [fut EXCEPT !.I = i, !.resolved = TRUE]
                 ELSE fut
    /\ UNCHANGED <<ranges, typ, resolveRan>>

EvalFutureIntersection ==
    /\ ~Aborted
    /\ op' = "FutureIntersectionConstraint.Eval"
    /\ args' = <<>>
    /\ ret' = FutureIntersectionConstraintEval(ranges, fut)
    /\ UNCHANGED <<ranges, typ, fut, resolveRan>>

EvalInterval(lit) ==
    /\ ~Aborted
    /\ op' = "IntervalConstraint.Eval"
    /\ args' = <<lit>>
    /\ ret' = IntervalConstraintEval(ranges, LeafC(lit))
    /\ UNCHANGED <<ranges, typ, fut, resolveRan>>

\* FutureIntersectionConstraint.Resolve: stores c.I (and nothing else); a
\* panic while computing the bounds leaves the constraint as it was.
Resolve ==
    /\ ~Aborted
    /\ op' = "FutureIntersectionConstraint.Resolve"
    /\ args' = <<>>
    /\ LET i == ResolveInterval(ranges, fut, typ)
       IN IF i = PanicI
          THEN ret' = PanicI /\ UNCHANGED <<fut, resolveRan>>
          ELSE /\ ret' = UnknownI
               /\ fut' = [fut EXCEPT !.I = i]
               /\ resolveRan' = TRUE
    /\ UNCHANGED <<ranges, typ>>

Next ==
    \/ \E w \in Values, r \in RangePool : SetRange(w, r)
    \/ \E fn \in {"Add", "Sub", "Mul"} : EvalArithmetic(fn)
    \/ EvalIntConversion
    \/ \E lit \in Literals : EvalIntersection(lit)
    \/ EvalFutureIntersection
    \/ \E lit \in Literals : EvalInterval(lit)
    \/ Resolve

Spec == Init /\ [][Next]_vars

\* ---- conversions: Init draws the two ranges and the two types
InitConv ==
    /\ op = "init"
    /\ args = <<>>
    /\ ret = UnknownI
    /\ ranges \in [Values -> ConvPool]
    /\ \E tx \in BasicTypes(SrcSizes), tv \in BasicTypes(DstSizes) :
          typ = [w \in Values |-> IF w = "x" THEN tx ELSE tv]
    /\ fut = [X |-> "x", lower |-> <<>>, lowerOffset |-> NewZ(0), upper |-> <<>>,
              upperOffset |-> NewZ(0), I |-> UnknownI, resolved |-> FALSE]
    /\ resolveRan = FALSE

NextConv == EvalIntConversion

SpecConv == InitConv /\ [][NextConv]_vars

\* ------------------------------------------------- properties: Z, Interval
\* exact order on Z, stated without Cmp: -inf below and +inf above everything
ZLeq(a, b) ==
    \/ a = b
    \/ a = NInfinity
    \/ b = PInfinity
    \/ (~Infinite(a) /\ ~Infinite(b) /\ a.integer[1] <= b.integer[1])

\* the finite integer n lies in the known interval i
Contains(i, n) == IsKnown(i) /\ ZLeq(i.lower, NewZ(n)) /\ ZLeq(NewZ(n), i.upper)

OppositeInfinities(z1, z2) == Infinite(z1) /\ Infinite(z2) /\ z1.infinity # z2.infinity

SameInfinities(z1, z2) == Infinite(z1) /\ Infinite(z2) /\ z1.infinity = z2.infinity

\* C1: Intersection and Union are commutative on intervals (unknown, empty,
\* concrete) and Intersection of an interval with itself is that interval.
C1_LatticeLaws ==
    /\ op = "Interval.Intersection" =>
          /\ ret = IntervalIntersection(args[2], args[1])
          /\ (args[1] = args[2] => ret = args[1])
    /\ (op = "Interval.Union" /\ IsInterval(args[2])) =>
          ret = IntervalUnion(args[2], args[1])

\* C2: Z.Add of two infinities of opposite sign (either order) and Z.Sub of
\* two infinities of the same sign panic; no value is returned.
C2_UndefinedInfinityPanics ==
    /\ (op = "Z.Add" /\ OppositeInfinities(args[1], args[2])) => IsPanicZ(ret)
    /\ (op = "Z.Sub" /\ SameInfinities(args[1], args[2])) => IsPanicZ(ret)

\* C6: on known non-empty operands Interval.Mul returns [min, max] of the
\* four corner products of Z.Mul (0 times an infinity being 0), which
\* contains x*y for all finite x in i1 and y in i2; an empty operand gives
\* the canonical empty interval.
C6_MulCorners ==
    (op = "Interval.Mul" /\ IsKnown(args[1]) /\ IsKnown(args[2])) =>
        LET i1 == args[1]
            i2 == args[2]
            corners == {ZMul(a, b) : a \in {i1.lower, i1.upper}, b \in {i2.lower, i2.upper}}
        IN IF Empty(i1) \/ Empty(i2) THEN ret = EmptyI
           ELSE /\ IsKnown(ret)
                /\ ret.lower \in corners
                /\ ret.upper \in corners
                /\ \A c \in corners : ZLeq(ret.lower, c) /\ ZLeq(c, ret.upper)
                /\ \A a \in {i1.lower, i1.upper}, b \in {i2.lower, i2.upper} :
                      (a = NewZ(0) \/ b = NewZ(0)) => ZMul(a, b) = NewZ(0)
                /\ \A x \in (0 - MaxInt)..MaxInt, y \in (0 - MaxInt)..MaxInt :
                      (Contains(i1, x) /\ Contains(i2, y)) => Contains(ret, x * y)

\* a sign-flipping product with an unbounded operand has been computed
C6_Witness ==
    /\ op = "Interval.Mul"
    /\ args[1] = NewInterval(NewZ(0 - 2), NewZ(2))
    /\ args[2] = NewInterval(NewZ(0 - 1), PInfinity)
    /\ ret = NewInterval(NInfinity, PInfinity)

\* C10: Interval.Add and Interval.Sub of two known intervals never panic.
C10_AddSubNeverPanic ==
    (op \in {"Interval.Add", "Interval.Sub"} /\ IsKnown(args[1]) /\ IsKnown(args[2])) =>
        ret # PanicI

\* ------------------------------------------------ properties: constraints
XRange == GraphRange(ranges, "x")

VRange == GraphRange(ranges, "v")

Concrete(i) == IsKnown(i) /\ ~Empty(i)

\* C3: an arithmetic constraint with an unknown operand evaluates to unknown
\* (never to empty); with both operands known it evaluates to the combining
\* function's result, which is empty when one operand is empty and the other
\* concrete.
C3_UnknownPropagation ==
    op = "ArithmeticConstraint.Eval" =>
        /\ (~IsKnown(XRange) \/ ~IsKnown(VRange)) => (ret = UnknownI /\ ret # EmptyI)
        /\ (IsKnown(XRange) /\ IsKnown(VRange)) => ret = ApplyFn(args[1], XRange, VRange)
        /\ ((Empty(XRange) /\ Concrete(VRange)) \/ (Concrete(XRange) /\ Empty(VRange))) =>
              ret = EmptyI

\* one operand unknown, the other empty: the result is unknown
C3_Witness ==
    /\ op = "ArithmeticConstraint.Eval"
    /\ "x" \in DOMAIN ranges
    /\ XRange = UnknownI
    /\ VRange = EmptyI
    /\ ret = UnknownI

ZMaxOf(a, b) == IF ZLeq(a, b) THEN b ELSE a

ZMinOf(a, b) == IF ZLeq(a, b) THEN a ELSE b

UnsignedWidening ==
    /\ op = "IntConversionConstraint.Eval"
    /\ typ["x"].unsigned
    /\ typ["v"].size > typ["x"].size
    /\ IsKnown(ranges["x"])

UInt8Source300 ==
    /\ typ["x"] = [unsigned |-> TRUE, size |-> 1]
    /\ typ["v"] = [unsigned |-> TRUE, size |-> 4]
    /\ ranges["x"] = NewInterval(NewZ(0), NewZ(300))

\* C4 (as claimed): an unsigned N-byte source with a known range converted to
\* a strictly wider destination whose range is unknown evaluates to the
\* source range clamped to [0, 2^(8N)-1]; uint8 [0,300] gives [0,255].
C4_ClampWithUnknownDestination ==
    (UnsignedWidening /\ ~IsKnown(ranges["v"])) =>
        /\ ret = NewInterval(ZMaxOf(NewZ(0), ranges["x"].lower),
                             ZMinOf(NewZ(2^(8 * typ["x"].size) - 1), ranges["x"].upper))
        /\ UInt8Source300 => ret = NewInterval(NewZ(0), NewZ(255))

\* C4 (amended): with the destination's range unknown the source range is
\* returned unchanged (uint8 [0,300] stays [0,300]); with the destination's
\* range known the result is NewInterval(max(0, source lower),
\* min(2^(8N)-1, destination upper)) (uint8 [0,300] into [0,+inf] gives
\* [0,255]).
C4_ClampOnlyWithKnownDestination ==
    UnsignedWidening =>
        /\ ~IsKnown(ranges["v"]) => ret = ranges["x"]
        /\ IsKnown(ranges["v"]) =>
              ret = NewInterval(ZMaxOf(NewZ(0), ranges["x"].lower),
                                ZMinOf(NewZ(2^(8 * typ["x"].size) - 1), ranges["v"].upper))
        /\ (UInt8Source300 /\ ~IsKnown(ranges["v"])) => ret = NewInterval(NewZ(0), NewZ(300))
        /\ (UInt8Source300 /\ ranges["v"] = NewInterval(NewZ(0), PInfinity)) =>
              ret = NewInterval(NewZ(0), NewZ(255))

\* uint8 [0,300] widened into a 4-byte unsigned destination of unknown range
C4_Witness ==
    /\ UnsignedWidening
    /\ UInt8Source300
    /\ ranges["v"] = UnknownI
    /\ ret = NewInterval(NewZ(0), NewZ(300))

\* C5: an Eval of any constraint kind changes neither the mapping nor a field
\* of the constraint (I and resolved included), and an Eval repeated with
\* nothing in between returns the same range.
C5_EvalIsPure ==
    [][op' \in EvalOps =>
          /\ ranges' = ranges
          /\ typ' = typ
          /\ fut' = fut
          /\ resolveRan' = resolveRan
          /\ (op = op' /\ args = args') => ret' = ret]_vars

\* a future intersection evaluated before its resolution, with a range
\* recorded for its dependency
C5_Witness ==
    /\ op = "FutureIntersectionConstraint.Eval"
    /\ fut.lower # <<>>
    /\ ~resolveRan
    /\ Concrete(VRange)
    /\ Concrete(XRange)
    /\ ret = XRange

\* z + k for a finite offset k, stated without Z.Add
Shift(z, k) == IF Infinite(z) THEN z ELSE NewZ(z.integer[1] + k.integer[1])

ResolveJustRan == op = "FutureIntersectionConstraint.Resolve"

\* a dependency is present and the range recorded for it is unknown
DependencyUnknown ==
    /\ fut.lower # <<>> \/ fut.upper # <<>>
    /\ "v" \in DOMAIN ranges
    /\ ~IsKnown(ranges["v"])

\* C7 (as claimed): Resolve sets I to NewInterval(l, u), l being the upper
\* component of lower's range plus lowerOffset if lower is present and its
\* range known and -inf otherwise, u the upper component of upper's range
\* plus upperOffset if upper is present and its range known and +inf
\* otherwise.
C7_ResolveFromUpperComponents ==
    ResolveJustRan =>
        LET l == IF fut.lower # <<>> /\ "v" \in DOMAIN ranges /\ IsKnown(ranges["v"])
                 THEN Shift(ranges["v"].upper, fut.lowerOffset) ELSE NInfinity
            u == IF fut.upper # <<>> /\ "v" \in DOMAIN ranges /\ IsKnown(ranges["v"])
                 THEN Shift(ranges["v"].upper, fut.upperOffset) ELSE PInfinity
        IN fut.I = NewInterval(l, u)

\* C7 (amended): Resolve sets I to NewInterval(l, u), l being the LOWER
\* component of lower's range plus lowerOffset and u the upper component of
\* upper's range plus upperOffset, where the range of a dependency without a
\* recorded range is InfinityFor of it ([0,+inf] if unsigned, else
\* [-inf,+inf]); l is -inf without a lower dependency and u is +inf without
\* an upper one.  If the range recorded for a present dependency is unknown,
\* Resolve panics instead.
C7_ResolveFromOwnComponents ==
    ResolveJustRan =>
        LET lowerR == IF "v" \in DOMAIN ranges THEN ranges["v"] ELSE InfinityFor(typ["v"])
            l == IF fut.lower # <<>> THEN Shift(lowerR.lower, fut.lowerOffset) ELSE NInfinity
            u == IF fut.upper # <<>> THEN Shift(lowerR.upper, fut.upperOffset) ELSE PInfinity
        IN IF DependencyUnknown THEN ret = PanicI
           ELSE ret # PanicI /\ resolveRan /\ fut.I = NewInterval(l, u)

\* resolved against a concrete range of the lower dependency whose two
\* components differ
C7_Witness ==
    /\ ResolveJustRan
    /\ fut.lower # <<>>
    /\ fut.upper = <<>>
    /\ fut.lowerOffset = NewZ(1)
    /\ VRange = NewInterval(NewZ(0 - 1), NewZ(0))
    /\ fut.I = NewInterval(NewZ(0), PInfinity)

\* C8: before Resolve has run the resolved marker is false and I is unknown;
\* after Resolve has run the resolved marker is true and I holds the
\* resolved bound.
C8_ResolvedMarker ==
    /\ ~resolveRan => (fut.resolved = FALSE /\ fut.I = UnknownI)
    /\ resolveRan => (fut.resolved = TRUE /\ IsKnown(fut.I))

\* C9: FutureIntersectionConstraint.Eval returns what
\* IntersectionConstraint.Eval returns for the same source and the same I; an
\* unknown source yields I, an unknown I (before Resolve) yields the source's
\* range.
C9_FutureEvalIsIntersectionEval ==
    op = "FutureIntersectionConstraint.Eval" =>
        /\ ret = IntersectionConstraintEval(ranges, InterC(fut.I))
        /\ ~IsKnown(XRange) => ret = fut.I
        /\ ~IsKnown(fut.I) => ret = XRange

\* an unknown source evaluated against a resolved concrete bound
C9_Witness ==
    /\ op = "FutureIntersectionConstraint.Eval"
    /\ resolveRan
    /\ Concrete(fut.I)
    /\ ~IsKnown(XRange)
    /\ ret = fut.I
====
